---- MODULE Spec2Model ----
(***************************************************************************)
(* Model of BinanceAnnouncementMonitor (src/main.py): the signed           *)
(* connection URL, the frame decoder, the window-of-one deduplication in   *)
(* handle_message and the reconnect loop of connect_and_listen.            *)
(***************************************************************************)
EXTENDS Integers, Sequences, FiniteSets, TLC

(***************************************************************************)
(* Bounds of the model.                                                    *)
(***************************************************************************)
MaxAttempts == 3
MaxFrames == 5
StreamAttempts == 1
LoopFrames == 2
FairFrames == 1
MaxPieces == 3

(***************************************************************************)
(* Program constants.                                                      *)
(***************************************************************************)
reconnect_delay == 5
recv_window == 30000
base_url == "wss://api.binance.com/sapi/wss"
TOPIC == "com_announcement_en"
None == "None"

api_key == "key"
api_secret == "secret"

\* catalogId values carried by announcements
Ids == {"A", "B"}

\* Text is a sequence of one-character strings.  The nonces uuid4().hex may
\* draw, shortened to two hexadecimal digits
Nonces == {<<"0", "a">>, <<"f", "f">>}
topic_value ==
    <<"c", "o", "m", "_", "a", "n", "n", "o", "u", "n", "c", "e", "m", "e",
      "n", "t", "_", "e", "n">>

(***************************************************************************)
(* generate_signature / get_connection_url                                 *)
(***************************************************************************)
\* code points of the parameter names, for Python's string comparison
Codes(k) ==
    CASE k = "random" -> <<114, 97, 110, 100, 111, 109>>
      [] k = "recvWindow" -> <<114, 101, 99, 118, 87, 105, 110, 100, 111, 119>>
      [] k = "timestamp" -> <<116, 105, 109, 101, 115, 116, 97, 109, 112>>
      [] k = "topic" -> <<116, 111, 112, 105, 99>>
      [] k = "signature" -> <<115, 105, 103, 110, 97, 116, 117, 114, 101>>

RECURSIVE SeqLess(_, _)
SeqLess(a, b) ==
    IF a = <<>> THEN b # <<>>
    ELSE IF b = <<>> THEN FALSE
    ELSE IF Head(a) # Head(b) THEN Head(a) < Head(b)
    ELSE SeqLess(Tail(a), Tail(b))

KeyLess(j, k) == SeqLess(Codes(j), Codes(k))

RECURSIVE Insert(_, _)
Insert(item, sorted) ==
    IF sorted = <<>> THEN <<item>>
    ELSE IF KeyLess(item[1], Head(sorted)[1]) THEN <<item>> \o sorted
    ELSE <<Head(sorted)>> \o Insert(item, Tail(sorted))

\* faulty variant: the items are signed in insertion order
SortedItemsUnsorted(params) == params

\* sorted(params.items()): insertion sort by key
RECURSIVE SortedItems(_)
SortedItems(params) ==
    IF params = <<>> THEN <<>>
    ELSE Insert(Head(params), SortedItems(Tail(params)))

\* a Python value: a str, an int, or the hexdigest str of an HMAC
StrV(text) == [t |-> "str", v |-> text]
IntV(n) == [t |-> "int", v |-> n]
HexV(digest) == [t |-> "hex", v |-> digest]

DigitChar(d) ==
    CASE d = 0 -> "0" [] d = 1 -> "1" [] d = 2 -> "2" [] d = 3 -> "3"
      [] d = 4 -> "4" [] d = 5 -> "5" [] d = 6 -> "6" [] d = 7 -> "7"
      [] d = 8 -> "8" [] d = 9 -> "9"

\* str(n) of an int n >= 0
RECURSIVE Digits(_)
Digits(n) ==
    IF n < 10 THEN <<DigitChar(n)>>
    ELSE Append(Digits(n \div 10), DigitChar(n % 10))

\* str(v)
PyStr(x) == IF x.t = "int" THEN Digits(x.v) ELSE x.v

\* '&'.join of the k=v pairs, as the sequence of its pieces
RECURSIVE JoinPairs(_)
JoinPairs(items) ==
    IF items = <<>> THEN <<>>
    ELSE <<Head(items)[1], "=">> \o Head(items)[2]
         \o (IF Len(items) = 1 THEN <<>> ELSE <<"&">>)
         \o JoinPairs(Tail(items))

\* HMAC-SHA256 hexdigest, kept symbolic: the key and the message it digests
HmacSha256(key, message) == [key |-> key, msg |-> message]

\* {k: str(v) for k, v in params.items()}
RECURSIVE Stringified(_)
Stringified(params) ==
    IF params = <<>> THEN <<>>
    ELSE << <<Head(params)[1], PyStr(Head(params)[2])>> >>
         \o Stringified(Tail(params))

\* params is the dict as its sequence of (key, value) items in insertion order
generate_signature(params) ==
    LET query_string == JoinPairs(SortedItems(Stringified(params)))
    IN HmacSha256(api_secret, query_string)

\* str(int(datetime.now().timestamp() * 1000)) for a clock reading in seconds
TimestampMs(clock) == Digits(clock * 1000)

SigningParams(nonce, clock) ==
    << <<"random", StrV(nonce)>>,
       <<"recvWindow", StrV(Digits(recv_window))>>,
       <<"timestamp", StrV(TimestampMs(clock))>>,
       <<"topic", StrV(topic_value)>> >>

\* urllib.parse.quote_plus: the characters it leaves alone, and the escapes
\* of the others that occur in the model
Unreserved ==
    {"0", "1", "2", "3", "4", "5", "6", "7", "8", "9", "_", ".", "-", "~",
     "a", "b", "c", "d", "e", "f", "g", "h", "i", "j", "k", "l", "m", "n",
     "o", "p", "q", "r", "s", "t", "u", "v", "w", "x", "y", "z"}

QuoteChar(c) ==
    IF c \in Unreserved THEN <<c>>
    ELSE CASE c = " " -> <<"+">>
           [] c = "&" -> <<"%", "2", "6">>
           [] c = "=" -> <<"%", "3", "D">>

RECURSIVE quote_plus(_)
quote_plus(text) ==
    IF text = <<>> THEN <<>>
    ELSE QuoteChar(Head(text)) \o quote_plus(Tail(text))

RECURSIVE unquote_plus(_)
unquote_plus(text) ==
    IF text = <<>> THEN <<>>
    ELSE IF Head(text) = "+" THEN <<" ">> \o unquote_plus(Tail(text))
    ELSE IF Head(text) = "%"
         THEN (IF SubSeq(text, 2, 3) = <<"2", "6">> THEN <<"&">> ELSE <<"=">>)
              \o unquote_plus(SubSeq(text, 4, Len(text)))
    ELSE <<Head(text)>> \o unquote_plus(Tail(text))

\* urlencode(params): every value stringified and quoted, in insertion
\* order; a hexdigest has hexadecimal digits only and is left as it is
RECURSIVE urlencode(_)
urlencode(params) ==
    IF params = <<>> THEN <<>>
    ELSE << <<Head(params)[1],
              IF Head(params)[2].t = "hex" THEN Head(params)[2].v
              ELSE quote_plus(PyStr(Head(params)[2]))>> >>
         \o urlencode(Tail(params))

\* faulty variant: the signature is computed before the timestamp is set
get_connection_url_early(nonce, clock) ==
    LET params == SigningParams(nonce, clock)
        signature == generate_signature(SubSeq(params, 1, 2))
    IN [base |-> base_url,
        query |-> urlencode(Append(params, <<"signature", HexV(signature)>>))]

get_connection_url(nonce, clock) ==
    LET params == SigningParams(nonce, clock)
        signature == generate_signature(params)
    IN [base |-> base_url,
        query |-> urlencode(Append(params, <<"signature", HexV(signature)>>))]

\* the parameters a query carries besides its signature, read back from it
RECURSIVE SignedPart(_)
SignedPart(query) ==
    IF query = <<>> THEN <<>>
    ELSE (IF Head(query)[1] = "signature" THEN <<>>
          ELSE << <<Head(query)[1], StrV(unquote_plus(Head(query)[2]))>> >>)
         \o SignedPart(Tail(query))

NoUrl == [base |-> None, query |-> <<>>]

(***************************************************************************)
(* clean_announcement_body / parse_announcement                            *)
(***************************************************************************)
opening_text ==
    <<"T", "h", "i", "s", " ", "i", "s", " ", "a", " ", "g", "e", "n", "e",
      "r", "a", "l", " ", "a", "n", "n", "o", "u", "n", "c", "e", "m", "e",
      "n", "t", ".">>

opening_text_2 ==
    <<"P", "r", "o", "d", "u", "c", "t", "s", " ", "a", "n", "d", " ", "s",
      "e", "r", "v", "i", "c", "e", "s", " ", "r", "e", "f", "e", "r", "r",
      "e", "d", " ", "t", "o", " ", "h", "e", "r", "e", " ", "m", "a", "y",
      " ", "n", "o", "t", " ", "b", "e", " ", "a", "v", "a", "i", "l", "a",
      "b", "l", "e", " ", "i", "n", " ", "y", "o", "u", "r", " ", "r", "e",
      "g", "i", "o", "n", ".">>

\* str.find(old) + 1: the position of the leftmost occurrence, 0 for none
Find(s, old) ==
    LET at == {i \in 1..(Len(s) - Len(old) + 1) :
                  /\ s[i] = old[1]
                  /\ SubSeq(s, i, i + Len(old) - 1) = old}
    IN IF at = {} THEN 0 ELSE CHOOSE i \in at : \A j \in at : i <= j

\* str.replace(old, ''): the leftmost occurrence is removed and the search
\* goes on behind it
RECURSIVE Replace(_, _)
Replace(s, old) ==
    LET i == Find(s, old)
    IN IF i = 0 THEN s
       ELSE SubSeq(s, 1, i - 1)
            \o Replace(SubSeq(s, i + Len(old), Len(s)), old)

clean_announcement_body(body) ==
    IF body = <<>> THEN <<>>
    ELSE Replace(Replace(body, opening_text), opening_text_2)

RealContent == <<" ", "R", "e", "a", "l", ".">>
Bodies == {opening_text \o RealContent, <<"H", "i">>}

\* The inner payload: the string held by the frame's data field.
\*   form        "object": JSON text of an object; "array": JSON text of a
\*               non-object; "not_json": text json.loads rejects
\*   publishDate "ms": epoch milliseconds; "bad": text int() rejects
\*   bodyType    "str": a JSON string; "number": a non-zero JSON number
Payload(form, cid, pd, bt, body) ==
    [form |-> form, catalogId |-> cid, publishDate |-> pd,
     bodyType |-> bt, body |-> body]

GoodPayloads ==
    {Payload("object", c, "ms", "str", b) : c \in Ids \cup {None}, b \in Bodies}

BadPayloads ==
    {Payload("not_json", None, "ms", "str", <<>>),
     Payload("array", None, "ms", "str", <<>>),
     Payload("object", "A", "bad", "str", <<"H", "i">>),
     Payload("object", "A", "ms", "number", <<>>)}

Payloads == GoodPayloads \cup BadPayloads

\* the {} that parse_announcement returns from its except branch
EmptyAnnouncement == [empty |-> TRUE, catalogId |-> None, body |-> <<>>]

\* TRUE where the try block of parse_announcement raises
ParseRaises(p) ==
    \/ p.form = "not_json"
    \/ p.form = "array"
    \/ p.bodyType = "number"
    \/ p.publishDate = "bad"

parse_announcement(p) ==
    IF ParseRaises(p) THEN EmptyAnnouncement
    ELSE [empty |-> FALSE, catalogId |-> p.catalogId,
          body |-> clean_announcement_body(p.body)]

(***************************************************************************)
(* handle_message                                                          *)
(***************************************************************************)
\* The decoded outer JSON of a text frame.
\*   shape "object": a JSON object; "array": any other JSON value
Message(shape, type, topic, data) ==
    [shape |-> shape, type |-> type, topic |-> topic, data |-> data]

NoPayload == Payload("not_json", None, "ms", "str", <<>>)

\* a well-formed announcement payload, as a frame of any type or topic may
\* carry in its data field
StrayPayload == Payload("object", "B", "ms", "str", <<"H", "i">>)

Messages ==
    {Message("array", None, None, NoPayload),
     Message("object", "COMMAND", None, StrayPayload),
     Message("object", "DATA", "other_topic", StrayPayload),
     Message("object", "PONG", TOPIC, StrayPayload)}
    \cup {Message("object", "DATA", TOPIC, p) : p \in Payloads}

\* faulty variant: the topic and the type are not both required
IsAnnouncementFrameLoose(message) ==
    message.type = "DATA" \/ message.topic = TOPIC

\* the test that lets a message through to parse_announcement
IsAnnouncementFrame(message) ==
    message.type = "DATA" /\ message.topic = TOPIC

\* hasattr(body, 'slice') for the str that parse_announcement always stores
HasSlice(body) == FALSE

\* faulty variant: no deduplication, every decoded event counts as new
IsNewAlways(announcement_id, last) == TRUE

\* the deduplication test of handle_message: TRUE when the event is new
IsNew(announcement_id, last) == announcement_id # last

\* What one call of handle_message does to the monitor, last being
\* last_announcement_id before the call.  The result gives
\* last_announcement_id after the call, whether an announcement was decoded
\* and accepted, and whether the call reaches the two sinks (delivers) with
\* the announcement it hands to them.
Outcome(last, decoded, announcement, accepted, delivers) ==
    [last |-> last, decoded |-> decoded, id |-> announcement.catalogId,
     body |-> announcement.body, accepted |-> accepted, delivers |-> delivers]

handle_message(message, last) ==
    IF message.shape # "object"
    THEN Outcome(last, FALSE, EmptyAnnouncement, FALSE, FALSE)
    ELSE IF message.type = "COMMAND"
    THEN Outcome(last, FALSE, EmptyAnnouncement, FALSE, FALSE)
    ELSE IF ~IsAnnouncementFrame(message)
    THEN Outcome(last, FALSE, EmptyAnnouncement, FALSE, FALSE)
    ELSE LET announcement == parse_announcement(message.data)
             announcement_id == announcement.catalogId
         IN IF announcement.empty
            THEN Outcome(last, FALSE, EmptyAnnouncement, FALSE, FALSE)
            ELSE IF ~IsNew(announcement_id, last)
            THEN Outcome(last, TRUE, announcement, FALSE, FALSE)
            ELSE Outcome(announcement_id, TRUE, announcement, TRUE,
                         HasSlice(announcement.body))

\* the record save_announcement writes, and the one send_to_webhook formats
\* after cleaning the body once more
save_announcement(out, ok) ==
    [id |-> out.id, body |-> out.body, ok |-> ok]

send_to_webhook(out, ok) ==
    [id |-> out.id, body |-> clean_announcement_body(out.body), ok |-> ok]

(***************************************************************************)
(* The supervisor: connect_and_listen                                      *)
(***************************************************************************)
VARIABLES
    env,                   \* the environment variables read by __init__
    pc,                    \* position of main and of connect_and_listen
    cancel_requested,      \* the task running main was cancelled
    attemptLimit,          \* connection attempts the run is followed for
    fn,                    \* a call of one function on its own, with result
    session,               \* self.session: None or "open"
    last_announcement_id,  \* self.last_announcement_id
    url,                   \* the local url of the current loop iteration
    now,                   \* the wall clock, in seconds
    attempt,               \* number of connection attempts begun
    live,                  \* attempts whose websocket is opening or open
    connected,             \* whether ws_connect of this attempt succeeded
    exc,                   \* exception in flight while the websocket closes
    send_str_calls,        \* commands given to send_str on this connection
    handed,                \* frames handed to handle_message on this connection
    waited,                \* delays slept since the last attempt began
    gaps,                  \* gaps[k]: the delays slept before attempt k
    opened,                \* opened[k]: the url attempt k gave to ws_connect
    attemptTimes,          \* attemptTimes[k]: the clock when attempt k began
    inbound,               \* websocket messages the server has yet to send
    lastMsg,               \* the websocket message received last
    seen,                  \* the catalogIds decoded so far, in order
    accepts,               \* accepts[i]: whether seen[i] was accepted
    unkeyed,               \* an announcement without catalogId was decoded
    saved,                 \* calls of save_announcement, with their outcome
    hooked                 \* calls of send_to_webhook, with their outcome

vars == <<env, pc, cancel_requested, attemptLimit, fn, session, last_announcement_id, url, now, attempt, live,
          connected, exc,
          send_str_calls, handed, waited, gaps, opened, attemptTimes,
          inbound, lastMsg, seen, accepts, unkeyed, saved, hooked>>

connVars == <<url, attempt, live, connected, send_str_calls, handed, gaps,
              opened, attemptTimes>>
dedupVars == <<last_announcement_id, seen, accepts, unkeyed, saved, hooked>>
idleVars == <<env, cancel_requested, attemptLimit, fn>>

\* exceptions the transport raises; all are subclasses of Exception
ConnectErrors == {"ClientConnectorError", "WSServerHandshakeError"}
SendErrors == {"ConnectionResetError"}
ExceptionKinds == ConnectErrors \cup SendErrors

\* faulty variant: only the first except clause is present
ExceptClauseNarrow(kind) ==
    IF kind = "ClientConnectorError" THEN "warning" ELSE "propagate"

\* the except clauses of the loop body that take an exception
ExceptClause(kind) ==
    IF kind = "ClientConnectorError" THEN "warning"
    ELSE IF kind \in ExceptionKinds THEN "error"
    ELSE "propagate"

\* faulty variant: the delay grows with the number of attempts
SleepDelayBackoff(n) == reconnect_delay * n

\* the argument of asyncio.sleep after attempt n
SleepDelay(n) == reconnect_delay

\* the clock readings of the model, and get_connection_url worked out once
\* for every nonce and reading
Clocks == 0..(reconnect_delay * MaxAttempts * MaxAttempts)
ConnectionUrls ==
    [nonce \in Nonces, clock \in Clocks |-> get_connection_url(nonce, clock)]

\* faulty variant: the endpoint of the first attempt is kept and reused
AttemptUrlCached(previous, nonce, clock) ==
    IF previous # NoUrl THEN previous ELSE ConnectionUrls[nonce, clock]

\* the url the loop iteration connects to
AttemptUrl(previous, nonce, clock) == ConnectionUrls[nonce, clock]

\* the commands subscribe_aiohttp gives to send_str
SubscribeCommand == [command |-> "SUBSCRIBE", value |-> TOPIC]
\* faulty variant: the command is sent a second time
subscribe_twice == <<SubscribeCommand, SubscribeCommand>>

subscribe_aiohttp == <<SubscribeCommand>>

\* faulty variant: the websocket is left open when the block is left
WsExitLeak(open, n) == open

\* leaving the async with block closes the websocket of attempt n
WsExit(open, n) == open \ {n}

\* the values an environment variable may have: set, empty, or not set
Unset == "unset"
Envs ==
    [BINANCE_API_KEY : {api_key, "", Unset},
     BINANCE_SECRET_KEY : {api_secret, "", Unset}]
GoodEnv == [BINANCE_API_KEY |-> api_key, BINANCE_SECRET_KEY |-> api_secret]

NoCall == [op |-> "none"]

NoMsg == [type |-> "none", class |-> "none", id |-> None, accepted |-> FALSE]

\* the state when main starts, with the number of messages the server
\* sends and the number of connection attempts followed
Fresh(frames, attempts) ==
    /\ pc = "main"
    /\ cancel_requested = FALSE
    /\ attemptLimit = attempts
    /\ session = None
    /\ last_announcement_id = None
    /\ url = NoUrl
    /\ now = 0
    /\ attempt = 0
    /\ live = {}
    /\ connected = FALSE
    /\ exc = None
    /\ send_str_calls = <<>>
    /\ handed = 0
    /\ waited = <<>>
    /\ gaps = <<>>
    /\ opened = <<>>
    /\ attemptTimes = <<>>
    /\ inbound = frames
    /\ lastMsg = NoMsg
    /\ seen = <<>>
    /\ accepts = <<>>
    /\ unkeyed = FALSE
    /\ saved = <<>>
    /\ hooked = <<>>

InitWith(frames, attempts) ==
    /\ env \in Envs
    /\ fn = NoCall
    /\ Fresh(frames, attempts)

\* many frames over few connections
Init == InitWith(MaxFrames, StreamAttempts)

\* faulty variant: only the API key is checked
CredentialsSetKeyOnly(e) == e.BINANCE_API_KEY \notin {"", Unset}

\* the two checks of __init__: both values are set and not empty
CredentialsSet(e) ==
    /\ e.BINANCE_API_KEY \notin {"", Unset}
    /\ e.BINANCE_SECRET_KEY \notin {"", Unset}

\* main: the monitor is constructed, or __init__ raises ValueError, which
\* main catches, reports and ends on
Construct ==
    /\ pc = "main"
    /\ pc' = IF CredentialsSet(env) THEN "start" ELSE "config_error"
    /\ UNCHANGED <<idleVars, session, now, exc, waited, inbound, lastMsg,
                   connVars, dedupVars>>

\* setup_session, before the loop
Start ==
    /\ pc = "start"
    /\ session' = "open"
    /\ pc' = "loop"
    /\ UNCHANGED <<idleVars, now, exc, waited, inbound, lastMsg, connVars, dedupVars>>

\* faulty variant: a new connection starts with an empty dedup state
OnReconnectReset(last) == None

\* the monitor a new iteration of the loop works on is the same object:
\* nothing in the loop assigns last_announcement_id
OnReconnect(last) == last

\* top of the loop: get_connection_url, then session.ws_connect is entered
BeginAttempt(nonce) ==
    /\ pc = "loop"
    /\ attempt < attemptLimit
    /\ url' = AttemptUrl(url, nonce, now)
    /\ attempt' = attempt + 1
    /\ live' = live \cup {attempt + 1}
    /\ connected' = FALSE
    /\ opened' = Append(opened, url')
    /\ attemptTimes' = Append(attemptTimes, now)
    /\ gaps' = Append(gaps, waited)
    /\ waited' = <<>>
    /\ send_str_calls' = <<>>
    /\ handed' = 0
    /\ pc' = "connecting"
    /\ last_announcement_id' = OnReconnect(last_announcement_id)
    /\ UNCHANGED <<idleVars, session, now, exc, inbound, lastMsg, seen,
                   accepts, unkeyed, saved, hooked>>

\* faulty variant: the session is closed but the field keeps it
cleanup_session_keep(sess) == sess

\* cleanup_session: the session is closed and cleared
cleanup_session(sess) == None

\* where an exception raised in the loop body takes the supervisor
Raise(kind) ==
    IF ExceptClause(kind) = "propagate"
    THEN /\ pc' = "returned"
         /\ session' = cleanup_session(session)
    ELSE /\ pc' = "sleeping"
         /\ UNCHANGED session

ConnectOk ==
    /\ pc = "connecting"
    /\ pc' = "subscribing"
    /\ connected' = TRUE
    /\ UNCHANGED <<idleVars, session, now, exc, waited, inbound, lastMsg, url, attempt,
                   live, send_str_calls, handed, gaps, opened, attemptTimes,
                   dedupVars>>

ConnectFail(kind) ==
    /\ pc = "connecting"
    /\ live' = live \ {attempt}
    /\ Raise(kind)
    /\ UNCHANGED <<idleVars, now, exc, waited, inbound, lastMsg, url, attempt,
                   connected, send_str_calls, handed, gaps, opened,
                   attemptTimes, dedupVars>>

\* subscribe_aiohttp: send_str succeeds or raises
Subscribe(ok) ==
    /\ pc = "subscribing"
    /\ send_str_calls' = send_str_calls \o subscribe_aiohttp
    /\ IF ok THEN pc' = "streaming" /\ exc' = exc
             ELSE pc' = "closing" /\ exc' = "ConnectionResetError"
    /\ UNCHANGED <<idleVars, session, now, waited, inbound, lastMsg, url, attempt,
                   live, connected, handed, gaps, opened, attemptTimes,
                   dedupVars>>

\* the class of a text frame, by what the decoder finds in it
FrameClass(frame) ==
    IF ~frame.valid THEN "invalid_json"
    ELSE IF frame.message.shape # "object" THEN "not_object"
    ELSE IF frame.message.type = "COMMAND" THEN "command"
    ELSE IF ~(frame.message.type = "DATA" /\ frame.message.topic = TOPIC)
    THEN "other"
    ELSE IF ParseRaises(frame.message.data) THEN "malformed_payload"
    ELSE IF frame.message.data.catalogId = None THEN "no_catalog_id"
    ELSE "announcement"

TextFrames ==
    {[valid |-> FALSE, message |-> Message("array", None, None, NoPayload)]}
    \cup {[valid |-> TRUE, message |-> m] : m \in Messages}

\* a TEXT message: json.loads, then handle_message; the sinks, where they
\* are reached, each succeed or fail
RecvText(frame) ==
    /\ pc = "streaming"
    /\ inbound > 0
    /\ inbound' = inbound - 1
    /\ IF ~frame.valid
       THEN /\ pc' = "closing"
            /\ lastMsg' = [type |-> "TEXT", class |-> FrameClass(frame),
                           id |-> None, accepted |-> FALSE]
            /\ UNCHANGED <<handed, dedupVars>>
       ELSE LET out == handle_message(frame.message, last_announcement_id)
            IN /\ pc' = "streaming"
               /\ handed' = handed + 1
               /\ last_announcement_id' = out.last
               /\ IF out.delivers
                  THEN \E saveOk \in BOOLEAN, hookOk \in BOOLEAN :
                          /\ saved' = Append(saved,
                                             save_announcement(out, saveOk))
                          /\ hooked' = Append(hooked,
                                              send_to_webhook(out, hookOk))
                  ELSE UNCHANGED <<saved, hooked>>
               /\ seen' = IF out.decoded /\ out.id # None
                          THEN Append(seen, out.id) ELSE seen
               /\ accepts' = IF out.decoded /\ out.id # None
                             THEN Append(accepts, out.accepted) ELSE accepts
               /\ unkeyed' = (unkeyed \/ (out.decoded /\ out.id = None))
               /\ lastMsg' = [type |-> "TEXT", class |-> FrameClass(frame),
                              id |-> out.id, accepted |-> out.accepted]
    /\ UNCHANGED <<idleVars, session, now, exc, waited, url, attempt, live, connected,
                   send_str_calls, gaps, opened, attemptTimes>>

\* a message that is neither TEXT nor ERROR: the loop body does nothing
RecvOther(type) ==
    /\ pc = "streaming"
    /\ inbound > 0
    /\ inbound' = inbound - 1
    /\ lastMsg' = [NoMsg EXCEPT !.type = type]
    /\ UNCHANGED <<idleVars, pc, session, now, exc, waited, connVars, dedupVars>>

\* the receive loop is left: an ERROR message (break), a close (the
\* iteration ends), an exception raised by the read (caught around the
\* loop), or a heartbeat that got no pong (surfaces as ERROR or as closed)
StreamEnds == {"ERROR", "CLOSED", "READ_EXCEPTION", "HEARTBEAT_TIMEOUT"}

RecvEnd(cause) ==
    /\ pc = "streaming"
    /\ pc' = "closing"
    /\ lastMsg' = [NoMsg EXCEPT !.type = cause]
    /\ UNCHANGED <<idleVars, session, now, exc, waited, inbound, connVars, dedupVars>>

\* the async with block is left: the websocket is closed, then a pending
\* exception reaches the except clauses
CloseWs ==
    /\ pc = "closing"
    /\ live' = WsExit(live, attempt)
    /\ exc' = None
    /\ IF exc = None THEN pc' = "sleeping" /\ UNCHANGED session
                     ELSE Raise(exc)
    /\ UNCHANGED <<idleVars, now, waited, inbound, lastMsg, url, attempt, connected,
                   send_str_calls, handed, gaps, opened, attemptTimes,
                   dedupVars>>

\* asyncio.sleep(self.reconnect_delay)
Sleep ==
    /\ pc = "sleeping"
    /\ waited' = Append(waited, SleepDelay(attempt))
    /\ now' = now + SleepDelay(attempt)
    /\ pc' = "loop"
    /\ UNCHANGED <<idleVars, session, exc, inbound, lastMsg, connVars, dedupVars>>

\* the positions where connect_and_listen is suspended in an await
AwaitPoints == {"connecting", "subscribing", "streaming", "closing",
                "sleeping"}

\* the task is cancelled: CancelledError is raised at the await the
\* supervisor is suspended in, the websocket is closed on the way out of the
\* async with block, and the finally clause cleans the session up
Cancel ==
    /\ pc \in AwaitPoints
    /\ ~cancel_requested
    /\ cancel_requested' = TRUE
    /\ live' = {}
    /\ exc' = None
    /\ IF ExceptClause("CancelledError") = "propagate"
       THEN /\ pc' = "cancelled"
            /\ session' = cleanup_session(session)
       ELSE /\ pc' = "sleeping"
            /\ UNCHANGED session
    /\ UNCHANGED <<env, attemptLimit, fn, now, waited, inbound, lastMsg, url,
                   attempt, connected, send_str_calls, handed, gaps, opened,
                   attemptTimes, dedupVars>>

Next ==
    \/ Construct
    \/ Start
    \/ \E nonce \in Nonces : BeginAttempt(nonce)
    \/ ConnectOk
    \/ \E kind \in ConnectErrors : ConnectFail(kind)
    \/ \E ok \in BOOLEAN : Subscribe(ok)
    \/ \E frame \in TextFrames : RecvText(frame)
    \/ \E type \in {"BINARY"} : RecvOther(type)
    \/ \E cause \in StreamEnds : RecvEnd(cause)
    \/ CloseWs
    \/ Sleep
    \/ Cancel

Spec == Init /\ [][Next]_vars

\* few frames over many connections
LoopInit == InitWith(LoopFrames, MaxAttempts)
LoopSpec == LoopInit /\ [][Next]_vars

\* the event loop runs every step of the supervisor that is ready, and the
\* timer of asyncio.sleep fires
FairInit == InitWith(FairFrames, MaxAttempts)

FairSpec ==
    /\ FairInit
    /\ [][Next]_vars
    /\ WF_vars(Construct)
    /\ WF_vars(Start)
    /\ WF_vars(\E nonce \in Nonces : BeginAttempt(nonce))
    /\ WF_vars(CloseWs)
    /\ WF_vars(Sleep)

(***************************************************************************)
(* The pure functions on their own: generate_signature on mappings that    *)
(* differ in insertion order only, and clean_announcement_body as          *)
(* parse_announcement and send_to_webhook apply it.                        *)
(***************************************************************************)
\* all orders the items of a dict may have been inserted in
Orderings(items) ==
    {f \in [1..Cardinality(items) -> items] :
        \A x \in items : \E i \in 1..Cardinality(items) : f[i] = x}

\* the parameters get_connection_url signs, recvWindow given as the int it
\* is configured as or as its str
ItemSets ==
    {{<<"random", StrV(nonce)>>, <<"recvWindow", window>>,
      <<"timestamp", StrV(TimestampMs(1))>>, <<"topic", StrV(topic_value)>>} :
        nonce \in Nonces,
        window \in {IntV(recv_window), StrV(Digits(recv_window))}}

SignCalls ==
    UNION {[op : {"generate_signature"},
            in : Orderings(items) \X Orderings(items),
            out : {<<>>}, stage : {0}] : items \in ItemSets}

\* bodies put together from the two phrases, parts of them and other text
Pieces ==
    {opening_text, opening_text_2, RealContent,
     SubSeq(opening_text, 1, 10),
     SubSeq(opening_text, 11, Len(opening_text)),
     SubSeq(opening_text_2, 1, 38),
     SubSeq(opening_text_2, 39, Len(opening_text_2))}

RECURSIVE Concat(_)
Concat(parts) ==
    IF parts = <<>> THEN <<>> ELSE Head(parts) \o Concat(Tail(parts))

TestBodies ==
    UNION {{Concat(parts) : parts \in [1..n -> Pieces]} : n \in 0..MaxPieces}

DecodeCalls ==
    [op : {"parse_announcement"}, in : TestBodies, out : {<<>>}, stage : {0}]

PureInit ==
    /\ env = GoodEnv
    /\ fn \in SignCalls \cup DecodeCalls
    /\ Fresh(0, 0)

\* generate_signature is called with each of the two mappings
Sign ==
    /\ fn.op = "generate_signature"
    /\ fn.stage = 0
    /\ fn' = [fn EXCEPT !.out = <<generate_signature(fn.in[1]),
                                  generate_signature(fn.in[2])>>,
                        !.stage = 1]
    /\ UNCHANGED <<env, pc, cancel_requested, attemptLimit, session, now, exc,
                   waited, inbound, lastMsg, connVars, dedupVars>>

\* parse_announcement decodes a payload with the body
Decode ==
    /\ fn.op = "parse_announcement"
    /\ fn.stage = 0
    /\ fn' = [fn EXCEPT
                !.out = <<parse_announcement(
                              Payload("object", "A", "ms", "str", fn.in))>>,
                !.stage = 1]
    /\ UNCHANGED <<env, pc, cancel_requested, attemptLimit, session, now, exc,
                   waited, inbound, lastMsg, connVars, dedupVars>>

\* the decoded event is handed to save_announcement and to send_to_webhook
Deliver ==
    /\ fn.op = "parse_announcement"
    /\ fn.stage = 1
    /\ LET out == Outcome("A", TRUE, fn.out[1], TRUE, TRUE)
       IN fn' = [fn EXCEPT !.out = <<fn.out[1], save_announcement(out, TRUE),
                                     send_to_webhook(out, TRUE)>>,
                           !.stage = 2]
    /\ UNCHANGED <<env, pc, cancel_requested, attemptLimit, session, now, exc,
                   waited, inbound, lastMsg, connVars, dedupVars>>

PureNext == Sign \/ Decode \/ Deliver

PureSpec == PureInit /\ [][PureNext]_vars

Range(s) == {s[i] : i \in 1..Len(s)}

TypeOK ==
    /\ env \in Envs
    /\ pc \in {"main", "config_error", "start", "loop", "connecting",
               "subscribing", "streaming", "closing", "sleeping", "returned",
               "cancelled"}
    /\ cancel_requested \in BOOLEAN
    /\ session \in {None, "open"}
    /\ last_announcement_id \in Ids \cup {None}
    /\ attempt \in 0..attemptLimit
    /\ inbound \in 0..MaxFrames
    /\ Len(seen) = Len(accepts)
    /\ Range(seen) \subseteq Ids

(***************************************************************************)
(* Properties                                                              *)
(***************************************************************************)
\* number of maximal runs of equal consecutive elements of s
RECURSIVE NumRuns(_)
NumRuns(s) ==
    IF Len(s) = 0 THEN 0
    ELSE IF Len(s) = 1 THEN 1
    ELSE NumRuns(Tail(s)) + (IF s[1] = s[2] THEN 0 ELSE 1)

\* a TEXT message was received in this step
TextStep == inbound' = inbound - 1 /\ lastMsg'.type = "TEXT"

\* C1: every run of consecutive announcements with the same catalogId gives
\* exactly one call of save_announcement and one call of send_to_webhook.
OneDeliveryPerRun ==
    ~unkeyed =>
        /\ Len(saved) = NumRuns(seen)
        /\ Len(hooked) = NumRuns(seen)

\* C2: no text frame, whatever its content, ends the stream: after it the
\* receive loop waits for the next frame on the same connection.
TextFrameKeepsStreaming ==
    [][TextStep => (pc' = "streaming" /\ live' = live)]_vars

\* the id stored after the first i announcements of s, by the window-of-one
\* rule, starting from no stored id
RECURSIVE Stored(_, _)
Stored(s, i) ==
    IF i = 0 THEN None
    ELSE IF s[i] # Stored(s, i - 1) THEN s[i] ELSE Stored(s, i - 1)

\* C3: from a fresh monitor, an announcement carrying a catalogId is accepted
\* exactly when its id differs from the stored id (the first always is), the
\* stored id then being that id, and left unchanged by a drop; ids
\* [A, A, B, A, A] give [accepted, dropped, accepted, accepted, dropped].
WindowOfOneDedup ==
    ~unkeyed =>
        /\ \A i \in 1..Len(seen) :
              accepts[i] = (i = 1 \/ seen[i] # Stored(seen, i - 1))
        /\ last_announcement_id = Stored(seen, Len(seen))
        /\ seen # <<>> => last_announcement_id = seen[Len(seen)]
        /\ seen = <<"A", "A", "B", "A", "A">> =>
              accepts = <<TRUE, FALSE, TRUE, TRUE, FALSE>>

WindowOfOneDedupReached ==
    /\ ~unkeyed
    /\ seen = <<"A", "A", "B", "A", "A">>
    /\ accepts = <<TRUE, FALSE, TRUE, TRUE, FALSE>>
    /\ last_announcement_id = "A"

\* C4: a DATA frame on the subscribed topic whose payload is malformed or
\* has no catalogId leaves last_announcement_id unchanged, calls no sink and
\* does not end the stream.
BadPayloadIgnored ==
    [][(TextStep /\ lastMsg'.class \in {"malformed_payload", "no_catalog_id"})
        => /\ last_announcement_id' = last_announcement_id
           /\ saved' = saved
           /\ hooked' = hooked
           /\ pc' = "streaming"]_vars

\* C5: the supervisor loop never returns, and whenever a connection attempt
\* has failed or its stream has ended the supervisor closes the connection,
\* waits the reconnect delay and begins the next attempt.
SupervisorRetries ==
    /\ [](pc # "returned")
    /\ (pc \in {"closing", "sleeping"} /\ attempt < attemptLimit
            /\ ~cancel_requested)
          ~> \/ pc = "connecting" /\ gaps[attempt] = <<reconnect_delay>>
             \/ cancel_requested

SupervisorRetriesReached ==
    /\ attempt >= 2
    /\ pc = "connecting"
    /\ lastMsg.type \in StreamEnds

\* C6: exactly one wait, of 5, lies between two consecutive connection
\* attempts, whatever ended the earlier attempt and however many attempts
\* came before.
OneFixedWaitBetweenAttempts ==
    /\ Len(waited) <= 1
    /\ \A i \in 1..Len(waited) : waited[i] = 5
    /\ \A k \in 1..Len(gaps) : gaps[k] = IF k = 1 THEN <<>> ELSE <<5>>
    /\ (pc = "loop" /\ attempt >= 1) => waited = <<5>>

OneFixedWaitBetweenAttemptsReached ==
    /\ Len(gaps) >= 3
    /\ gaps[2] = <<5>>
    /\ gaps[3] = <<5>>
    /\ pc = "connecting"

\* C7: on a successful connect exactly one SUBSCRIBE command for topic
\* com_announcement_en is given to send_str, before any frame of the
\* connection is handed to handle_message; none on a failed connect.
SubscribeOncePerConnection ==
    /\ \A i \in 1..Len(send_str_calls) :
          send_str_calls[i] =
              [command |-> "SUBSCRIBE", value |-> "com_announcement_en"]
    /\ ~connected => send_str_calls = <<>>
    /\ pc = "subscribing" => send_str_calls = <<>> /\ handed = 0
    /\ (connected /\ pc # "subscribing" /\ ~cancel_requested) =>
          Len(send_str_calls) = 1
    /\ Len(send_str_calls) <= 1
    /\ handed > 0 => (connected /\ Len(send_str_calls) = 1)

SubscribeOncePerConnectionReached ==
    /\ attempt >= 2
    /\ connected
    /\ handed >= 2
    /\ Len(send_str_calls) = 1
    /\ gaps[2] = <<5>>

\* C8: at most one connection is open or being opened at any time, and none
\* is while the supervisor waits or is about to begin an attempt.
SingleConnection ==
    /\ Cardinality(live) <= 1
    /\ pc \in {"main", "config_error", "start", "loop", "sleeping",
               "returned", "cancelled"} => live = {}
    /\ pc \in {"connecting", "subscribing", "streaming", "closing"} =>
          live = {attempt}

SingleConnectionReached ==
    /\ attempt >= 2
    /\ pc = "streaming"
    /\ live = {attempt}
    /\ lastMsg.type \in StreamEnds

\* C9: every attempt connects to an endpoint built in that attempt: its
\* timestamp is the clock read when the attempt began, its signature is that
\* of its own four parameters, and no endpoint opens two attempts.
FreshEndpointPerAttempt ==
    /\ Len(opened) = attempt
    /\ attempt >= 1 => url = opened[attempt]
    /\ \A k \in 1..Len(opened) :
          LET q == opened[k].query
          IN /\ Len(q) = 5
             /\ q[1][1] = "random" /\ q[1][2] \in Nonces
             /\ q[3] = <<"timestamp", TimestampMs(attemptTimes[k])>>
             /\ q[5] = <<"signature", generate_signature(SignedPart(q))>>
    /\ \A i, j \in 1..Len(opened) : i < j => opened[i] # opened[j]

FreshEndpointPerAttemptReached ==
    /\ Len(opened) >= 2
    /\ opened[1].query[1] = opened[2].query[1]
    /\ opened[1].query[3] # opened[2].query[3]
    /\ opened[1].query[5] # opened[2].query[5]

NonAnnouncementIgnored ==
    [][(TextStep /\ lastMsg'.class \in {"command", "other"}) =>
          /\ pc' = "streaming"
          /\ live' = live
          /\ UNCHANGED <<last_announcement_id, saved, hooked>>]_vars

NonAnnouncementIgnoredReached ==
    /\ lastMsg.type = "TEXT"
    /\ lastMsg.class = "other"
    /\ last_announcement_id = "A"
    /\ handed >= 2
    /\ pc = "streaming"

\* C12: with the API key or the API secret unset or empty the construction
\* of the monitor fails: the program ends there, no session is made and no
\* connection is ever attempted.
ConfigurationFaultIsFatal ==
    (\/ env.BINANCE_API_KEY \in {"", Unset}
     \/ env.BINANCE_SECRET_KEY \in {"", Unset}) =>
        /\ pc \in {"main", "config_error"}
        /\ session = None
        /\ attempt = 0
        /\ opened = <<>>
        /\ live = {}

ConfigurationFaultIsFatalReached ==
    /\ pc = "config_error"
    /\ env.BINANCE_API_KEY = api_key
    /\ env.BINANCE_SECRET_KEY = ""

\* the canonical string of the four signing parameters: k=v pairs with the
\* value as text, keys ascending, joined by &
TextOf(params, key) ==
    LET i == CHOOSE j \in 1..Len(params) : params[j][1] = key
    IN IF params[i][2].t = "int" THEN Digits(params[i][2].v)
       ELSE params[i][2].v

CanonicalString(params) ==
    <<"random", "=">> \o TextOf(params, "random")
    \o <<"&", "recvWindow", "=">> \o TextOf(params, "recvWindow")
    \o <<"&", "timestamp", "=">> \o TextOf(params, "timestamp")
    \o <<"&", "topic", "=">> \o TextOf(params, "topic")

\* C13: two mappings with the same key/value pairs in different insertion
\* orders get the same signature, the HMAC under the secret of the canonical
\* string (values as text, keys ascending, k=v joined by &).
SignatureIgnoresInsertionOrder ==
    (fn.op = "generate_signature" /\ fn.stage = 1) =>
        /\ fn.out[1] = fn.out[2]
        /\ fn.out[1] = HmacSha256(api_secret, CanonicalString(fn.in[1]))

SignatureIgnoresInsertionOrderReached ==
    /\ fn.op = "generate_signature"
    /\ fn.stage = 1
    /\ fn.in[1] # fn.in[2]
    /\ fn.in[1][1][1] = "topic"
    /\ fn.in[2][1] = <<"recvWindow", IntV(recv_window)>>
    /\ fn.out[1] = fn.out[2]

\* the positions of body where an occurrence of phrase starts
Starts(body, phrase) ==
    {i \in 1..(Len(body) - Len(phrase) + 1) :
        /\ body[i] = phrase[1]
        /\ SubSeq(body, i, i + Len(phrase) - 1) = phrase}

\* body without the characters of the occurrences of the two phrases in
\* it: the text between one occurrence and the next is kept
RemoveOccurrences(body) ==
    LET starts1 == Starts(body, opening_text)
        starts2 == Starts(body, opening_text_2)
        starts == starts1 \cup starts2
        RECURSIVE From(_)
        From(j) ==
            LET later == {i \in starts : i >= j}
            IN IF later = {} THEN SubSeq(body, j, Len(body))
               ELSE LET i == CHOOSE x \in later : \A y \in later : x <= y
                        n == IF i \in starts1 THEN Len(opening_text)
                             ELSE Len(opening_text_2)
                    IN SubSeq(body, j, i - 1) \o From(i + n)
    IN From(1)

\* C14: the body of the decoded event is the body of the payload without
\* the occurrences of the two boilerplate phrases in it, every other
\* character kept in order; "This is a general announcement. Real." gives
\* " Real.".
DecodedBodyStripsPhrases ==
    (fn.op = "parse_announcement" /\ fn.stage >= 1) =>
        /\ fn.out[1].body = RemoveOccurrences(fn.in)
        /\ fn.in = opening_text \o RealContent => fn.out[1].body = RealContent

\* C15: connecting, subscribing, failing, closing and waiting leave
\* last_announcement_id alone, only an accepted event changes it (to its
\* id); so the first frame of a later connection that carries the id stored
\* when the connection before ended is dropped.
DedupSurvivesReconnect ==
    /\ [][last_announcement_id' # last_announcement_id =>
             /\ TextStep
             /\ lastMsg'.accepted
             /\ last_announcement_id' = lastMsg'.id]_vars
    /\ [][(/\ TextStep
           /\ attempt >= 2
           /\ handed = 0
           /\ lastMsg'.class = "announcement"
           /\ lastMsg'.id = last_announcement_id) =>
             /\ ~lastMsg'.accepted
             /\ UNCHANGED <<last_announcement_id, saved, hooked>>]_vars

DedupSurvivesReconnectReached ==
    /\ attempt = 2
    /\ handed = 1
    /\ seen = <<"A", "A">>
    /\ accepts = <<TRUE, FALSE>>
    /\ lastMsg.class = "announcement"
    /\ ~lastMsg.accepted
    /\ last_announcement_id = "A"

\* C16: once the task is cancelled the supervisor has stopped: the
\* websocket is closed, the session is closed and cleared, no attempt is
\* begun afterwards, and last_announcement_id stays what the last frame
\* handled left it: the id stored before that frame or the frame's id.
CancellationStops ==
    /\ [](cancel_requested =>
             /\ pc = "cancelled"
             /\ session = None
             /\ live = {})
    /\ [][cancel_requested' =>
             UNCHANGED <<attempt, opened, last_announcement_id>>]_vars
    /\ [][TextStep =>
             last_announcement_id' \in {last_announcement_id, lastMsg'.id}]_vars

CancellationStopsReached ==
    /\ pc = "cancelled"
    /\ cancel_requested
    /\ session = None
    /\ lastMsg.type = "TEXT"
    /\ lastMsg.accepted
    /\ last_announcement_id = "A"
    /\ attempt = 2

\* C17: every URL given to ws_connect has exactly the five parameters
\* random, recvWindow, timestamp, topic and signature, and the signature is
\* the HMAC of the canonical string of the other four as the URL carries
\* them, the signature not being part of that string.
UrlSignsItsOwnParameters ==
    \A k \in 1..Len(opened) :
        LET q == opened[k].query
            names == {q[i][1] : i \in 1..Len(q)}
            signed == SignedPart(q)
        IN /\ Len(q) = 5
           /\ names = {"random", "recvWindow", "timestamp", "topic",
                       "signature"}
           /\ \E i \in 1..Len(q) :
                 /\ q[i][1] = "signature"
                 /\ q[i][2] = HmacSha256(api_secret, CanonicalString(signed))
                 /\ q[i][2] = generate_signature(signed)
                 /\ \A j \in 1..Len(q[i][2].msg) :
                       q[i][2].msg[j] # "signature"

UrlSignsItsOwnParametersReached ==
    /\ Len(opened) = 2
    /\ opened[1].query[1] # opened[2].query[1]
    /\ opened[2].query[2] = <<"recvWindow", Digits(recv_window)>>
    /\ pc = "streaming"

\* C18: cleaning a cleaned body changes nothing, so the body
\* send_to_webhook formats is the body save_announcement was given.
CleaningIsIdempotent ==
    (fn.op = "parse_announcement" /\ fn.stage = 2) =>
        /\ clean_announcement_body(clean_announcement_body(fn.in)) =
              clean_announcement_body(fn.in)
        /\ fn.out[3].body = fn.out[2].body

====
